---- MODULE Spec2Model ----
(***************************************************************************)
(* FramePro: Portal Method frame calculator.                               *)
(*                                                                         *)
(* The model covers src/src/context/CalculationContext.tsx (the context    *)
(* provider and its calculateResults) and                                  *)
(* src/src/components/calculator/CalculatorForm.tsx (the form, its         *)
(* handlers, validateForm and the delayed timer callback of handleSubmit). *)
(*                                                                         *)
(* Numbers.  A JavaScript number is modelled as a record [n, d]: the exact *)
(* rational n/d in lowest terms with d > 0, or a non-finite value with     *)
(* d = 0 (n = 0: NaN, n = 1: Infinity, n = -1: -Infinity).  Rounding of    *)
(* IEEE doubles and overflow past Number.MAX_VALUE are not modelled.       *)
(*                                                                         *)
(* Arrays.  The source indexes from 0; sequences here index from 1, so     *)
(* story i / column c / span s of the source is i+1 / c+1 / s+1 here.      *)
(* The inner arrays of spanMeasurements are objects that handlers share    *)
(* and mutate in place, so they live in a heap and formData holds their    *)
(* addresses.                                                              *)
(***************************************************************************)
EXTENDS Integers, Sequences, FiniteSets, TLC

VARIABLES
    formData,            \* CalculatorForm state: the structure being edited
    isFormValid,         \* CalculatorForm state, set by validateForm
    isCalculating,       \* CalculatorForm state
    pending,             \* setTimeout callbacks not yet run: the formData each captured
    heap,                \* address -> inner array of spanMeasurements
    structureData,       \* CalculationProvider state (NULL before the first calculation)
    calculationResults,  \* CalculationProvider state (NULL before the first calculation)
    hasCalculated,       \* CalculationProvider state
    toast,               \* kind of the last toast shown
    route,               \* current page
    lastOp,              \* name of the handler that ran last
    locals,              \* values the last calculateResults call computed and read on its way
    ops                  \* number of user operations so far

vars == <<formData, isFormValid, isCalculating, pending, heap, structureData,
          calculationResults, hasCalculated, toast, route, lastOp, locals, ops>>

\* null: a record, so that it compares with the records it stands in for
NULL == [null |-> TRUE]

-----------------------------------------------------------------------------
(* Program constants *)

MaxStories == 4
MaxSpans == 5
DefaultStories == 2
DefaultHeight == 3
DefaultSpans == 2
DefaultLoad == 10
DefaultSpan == 4

(* Bounds of the model *)

EngStories == 3      \* SpecEngine: structures of 1..EngStories stories
EngSpans == 3        \* SpecEngine: 1..EngSpans spans per story
FormStories == 2     \* Spec: story counts the user picks (besides the rejected one)
FormSpans == 2       \* Spec: span counts the user picks (besides the rejected one)
MaxOps == 3          \* Spec: user operations per behaviour
MaxPending == 2      \* Spec: timers outstanding at once

-----------------------------------------------------------------------------
(* JavaScript numbers *)

Abs(x) == IF x < 0 THEN -x ELSE x

Sign(x) == IF x < 0 THEN -1 ELSE IF x > 0 THEN 1 ELSE 0

RECURSIVE GCD(_, _)
GCD(a, b) == IF b = 0 THEN a ELSE GCD(b, a % b)

NaN == [n |-> 0, d |-> 0]

Inf(s) == [n |-> s, d |-> 0]

Norm(n, d) ==
    IF d = 0 THEN [n |-> Sign(n), d |-> 0]
    ELSE LET g == GCD(Abs(n), Abs(d))
         IN  [n |-> (Sign(d) * n) \div g, d |-> Abs(d) \div g]

R(k) == [n |-> k, d |-> 1]

Half == [n |-> 1, d |-> 2]

IsNaN(x) == x.d = 0 /\ x.n = 0

IsFinite(x) == x.d > 0

RAdd(x, y) ==
    IF IsNaN(x) \/ IsNaN(y) THEN NaN
    ELSE IF x.d = 0 /\ y.d = 0 THEN (IF x.n = y.n THEN x ELSE NaN)
    ELSE IF x.d = 0 THEN x
    ELSE IF y.d = 0 THEN y
    ELSE Norm(x.n * y.d + y.n * x.d, x.d * y.d)

RNeg(x) == [n |-> -x.n, d |-> x.d]

RSub(x, y) == RAdd(x, RNeg(y))

RMul(x, y) ==
    IF IsNaN(x) \/ IsNaN(y) THEN NaN
    ELSE IF x.d = 0 \/ y.d = 0
         THEN (IF x.n = 0 \/ y.n = 0 THEN NaN ELSE Inf(Sign(x.n) * Sign(y.n)))
    ELSE Norm(x.n * y.n, x.d * y.d)

RDiv(x, y) ==
    IF IsNaN(x) \/ IsNaN(y) THEN NaN
    ELSE IF x.d = 0 /\ y.d = 0 THEN NaN
    ELSE IF y.d = 0 THEN R(0)
    ELSE IF x.d = 0 THEN Inf(IF y.n < 0 THEN -x.n ELSE x.n)
    ELSE IF y.n = 0 THEN (IF x.n = 0 THEN NaN ELSE Inf(Sign(x.n)))
    ELSE Norm(x.n * y.d, x.d * y.n)

RAbs(x) == [n |-> Abs(x.n), d |-> x.d]

\* x > 0 in JavaScript: false for NaN
RPos(x) == x.n > 0

\* x >= 0 in JavaScript: false for NaN
RNonNeg(x) == x.n > 0 \/ (x.n = 0 /\ x.d > 0)

-----------------------------------------------------------------------------
(* calculateResults: CalculationContext.tsx lines 44-225.                  *)
(* data is a StructureData record whose spanMeasurements holds addresses;  *)
(* h is the heap the addresses are read from.                              *)

\* const numColumns = spansPerStory[storyIndex] + 1
numColumns(data, storyIndex) == data.spansPerStory[storyIndex] + 1

\* lateralLoads.slice(0, k).reduce((sum, load) => sum + load, 0)
RECURSIVE SliceSum(_, _)
SliceSum(loads, k) ==
    IF k = 0 THEN R(0)
    ELSE IF k > Len(loads) THEN SliceSum(loads, Len(loads))
    ELSE RAdd(SliceSum(loads, k - 1), loads[k])

\* A slip: the load of the story alone, the stories above forgotten
cumulativeLoad_StoryLoadOnly(data, storyIndex) == data.lateralLoads[storyIndex]

cumulativeLoad(data, storyIndex) == SliceSum(data.lateralLoads, storyIndex)

\* A slip: every column counted once, interior columns too
effectiveColumns_EachColumnOnce(n) == n

\* const effectiveColumns = numColumns + (numColumns - 2)
effectiveColumns(n) == n + (n - 2)

\* A slip: slice(storyIndex) for slice(0, storyIndex + 1), the loads from the
\* story down instead of from the top down to the story
exteriorColumnShear_LoadsBelow(data, storyIndex) ==
    RDiv(RSub(SliceSum(data.lateralLoads, Len(data.lateralLoads)),
              SliceSum(data.lateralLoads, storyIndex - 1)),
         R(effectiveColumns(numColumns(data, storyIndex))))

exteriorColumnShear(data, storyIndex) ==
    RDiv(cumulativeLoad(data, storyIndex),
         R(effectiveColumns(numColumns(data, storyIndex))))

\* A slip: only the first column taken as exterior
isExterior_FirstOnly(columnIndex, n) == columnIndex = 1

\* columnIndex === 0 || columnIndex === numColumns - 1
isExterior(columnIndex, n) == columnIndex = 1 \/ columnIndex = n

\* A slip: an IRREGULAR structure given the exterior shear in every column
columnShearForce_ByStructureType(data, storyIndex, columnIndex) ==
    IF data.structureType = "IRREGULAR"
       \/ isExterior(columnIndex, numColumns(data, storyIndex))
    THEN exteriorColumnShear(data, storyIndex)
    ELSE RMul(exteriorColumnShear(data, storyIndex), R(2))

columnShearForce(data, storyIndex, columnIndex) ==
    IF isExterior(columnIndex, numColumns(data, storyIndex))
    THEN exteriorColumnShear(data, storyIndex)
    ELSE RMul(exteriorColumnShear(data, storyIndex), R(2))

\* A slip: the whole story height instead of half of it
columnMomentValue_FullHeight(data, storyIndex, columnIndex) ==
    RMul(columnShearForce(data, storyIndex, columnIndex), data.storyHeights[storyIndex])

\* A slip: the column moment kept with the sign it has in the joint equation
\* (counterclockwise, negative)
columnMomentValue_Counterclockwise(data, storyIndex, columnIndex) ==
    RNeg(RMul(columnShearForce(data, storyIndex, columnIndex),
              RMul(data.storyHeights[storyIndex], Half)))

\* columnShearForce * (storyHeights[storyIndex] * 0.5)
columnMomentValue(data, storyIndex, columnIndex) ==
    RMul(columnShearForce(data, storyIndex, columnIndex),
         RMul(data.storyHeights[storyIndex], Half))

\* An array filled by push: the first n values of f, in order
RECURSIVE Pushed(_, _)
Pushed(f, n) == IF n = 0 THEN <<>> ELSE Append(Pushed(f, n - 1), f[n])

\* A slip: the column loop bounded by the number of spans
storyColumnShear_LoopToSpans(data, storyIndex) ==
    Pushed([c \in 1..numColumns(data, storyIndex) |->
               columnShearForce(data, storyIndex, c)],
           data.spansPerStory[storyIndex])

\* for (columnIndex = 0; columnIndex < numColumns; columnIndex++) push
storyColumnShear(data, storyIndex) ==
    Pushed([c \in 1..numColumns(data, storyIndex) |->
               columnShearForce(data, storyIndex, c)],
           numColumns(data, storyIndex))

storyColumnMoment(data, storyIndex) ==
    Pushed([c \in 1..numColumns(data, storyIndex) |->
               columnMomentValue(data, storyIndex, c)],
           numColumns(data, storyIndex))

\* The loop over upperStoryIndex < storyIndex: adds columnMoment[upper][col]
\* of every story above whose row has that column
RECURSIVE upperColumnMoments(_, _, _)
upperColumnMoments(columnMoment, upperCount, col) ==
    IF upperCount = 0 THEN R(0)
    ELSE RAdd(upperColumnMoments(columnMoment, upperCount - 1, col),
              IF col <= Len(columnMoment[upperCount])
              THEN columnMoment[upperCount][col]
              ELSE R(0))

\* cumulativeColumnMoment / nextColumnMoment / lastColumnMoment at joint col:
\* the rows above plus storyColumnMoment[col], here row storyIndex
cumulativeColumnMoment(columnMoment, storyIndex, col) ==
    RAdd(upperColumnMoments(columnMoment, storyIndex - 1, col),
         columnMoment[storyIndex][col])

\* girderMomentValue of a span, given the moments pushed so far
girderMomentValue(columnMoment, pushed, storyIndex, spanIndex) ==
    IF spanIndex = 1
    THEN cumulativeColumnMoment(columnMoment, storyIndex, spanIndex)
    ELSE RAbs(RSub(cumulativeColumnMoment(columnMoment, storyIndex, spanIndex),
                   pushed[spanIndex - 1]))

\* storyGirderMoment after the first spans passes of the span loop
RECURSIVE storyGirderMoment(_, _, _)
storyGirderMoment(columnMoment, storyIndex, spans) ==
    IF spans = 0 THEN <<>>
    ELSE LET pushed == storyGirderMoment(columnMoment, storyIndex, spans - 1)
         IN  Append(pushed, girderMomentValue(columnMoment, pushed, storyIndex, spans))

\* The right-end moment taken equal to the left-end moment on every span but
\* the last (as the second copy of calculateResults in the file does)
rightMoment_SameAsLeft(columnMoment, girderMoment, storyIndex, spanIndex, spans) ==
    IF spanIndex < spans
    THEN girderMoment
    ELSE cumulativeColumnMoment(columnMoment, storyIndex, spans + 1)

\* rightMoment of a span whose girder moment (leftMoment) is girderMoment
rightMoment(columnMoment, girderMoment, storyIndex, spanIndex, spans) ==
    IF spanIndex < spans
    THEN RAbs(RSub(cumulativeColumnMoment(columnMoment, storyIndex, spanIndex + 1),
                   girderMoment))
    ELSE cumulativeColumnMoment(columnMoment, storyIndex, spans + 1)

\* spanMeasurements[storyIndex][spanIndex]; a missing cell is undefined,
\* which arithmetic turns into NaN
spanLength(data, h, storyIndex, spanIndex) ==
    LET row == h[data.spanMeasurements[storyIndex]]
    IN  IF spanIndex <= Len(row) THEN row[spanIndex] ELSE NaN

\* A slip: the right-end moment left out
girderShearValue_LeftOnly(leftMoment, right, length) == RDiv(leftMoment, length)

\* (leftMoment + rightMoment) / spanLength
girderShearValue(leftMoment, right, length) == RDiv(RAdd(leftMoment, right), length)

\* One pass of the story loop: the four rows it pushes, and next to them what
\* it computed and read on its way (joint: the column-moment total of every
\* joint; right: the right-end moment of every span; divisor: effectiveColumns;
\* spanLength: the length every girder shear was divided by)
storyPass(data, h, columnMoment, storyIndex) ==
    LET spans == data.spansPerStory[storyIndex]
        girderMoment == storyGirderMoment(columnMoment, storyIndex, spans)
        right == Pushed([s \in 1..spans |->
                            rightMoment(columnMoment, girderMoment[s], storyIndex, s, spans)],
                        spans)
        lengths == Pushed([s \in 1..spans |-> spanLength(data, h, storyIndex, s)], spans)
    IN  [columnShear  |-> storyColumnShear(data, storyIndex),
         columnMoment |-> columnMoment[storyIndex],
         girderMoment |-> girderMoment,
         girderShear  |-> Pushed([s \in 1..spans |->
                                     girderShearValue(girderMoment[s], right[s], lengths[s])],
                                 spans),
         joint        |-> Pushed([c \in 1..(spans + 1) |->
                                     cumulativeColumnMoment(columnMoment, storyIndex, c)],
                                 spans + 1),
         right        |-> right,
         divisor      |-> effectiveColumns(numColumns(data, storyIndex)),
         spanLength   |-> lengths]

\* The story loop
allPasses(data, h) ==
    LET columnMoment == Pushed([i \in 1..data.numStories |-> storyColumnMoment(data, i)],
                               data.numStories)
    IN  Pushed([i \in 1..data.numStories |-> storyPass(data, h, columnMoment, i)],
               data.numStories)

\* A slip: the four result arrays declared outside calculateResults, so that
\* every call pushes its rows after those of the calls before it
resultsOf_KeptAcrossCalls(passes) ==
    LET rows(grid) == Pushed([i \in 1..Len(passes) |-> passes[i][grid]], Len(passes))
        before(grid) == IF calculationResults = NULL THEN <<>> ELSE calculationResults[grid]
    IN  [columnShear  |-> before("columnShear") \o rows("columnShear"),
         columnMoment |-> before("columnMoment") \o rows("columnMoment"),
         girderShear  |-> before("girderShear") \o rows("girderShear"),
         girderMoment |-> before("girderMoment") \o rows("girderMoment")]

\* The four grids handed to setCalculationResults
resultsOf(passes) ==
    [columnShear  |-> Pushed([i \in 1..Len(passes) |-> passes[i].columnShear], Len(passes)),
     columnMoment |-> Pushed([i \in 1..Len(passes) |-> passes[i].columnMoment], Len(passes)),
     girderShear  |-> Pushed([i \in 1..Len(passes) |-> passes[i].girderShear], Len(passes)),
     girderMoment |-> Pushed([i \in 1..Len(passes) |-> passes[i].girderMoment], Len(passes))]

calculateResults(data, h) == resultsOf(allPasses(data, h))

\* What the call computed and read on its way
localsOf(passes) ==
    [joint      |-> Pushed([i \in 1..Len(passes) |-> passes[i].joint], Len(passes)),
     right      |-> Pushed([i \in 1..Len(passes) |-> passes[i].right], Len(passes)),
     divisor    |-> Pushed([i \in 1..Len(passes) |-> passes[i].divisor], Len(passes)),
     spanLength |-> Pushed([i \in 1..Len(passes) |-> passes[i].spanLength], Len(passes))]

callLocals(data, h) == localsOf(allPasses(data, h))

-----------------------------------------------------------------------------
(* The order in which calculateResults reads and writes its arrays: every   *)
(* array access of lines 54-213 as an event, in program order. kind is     *)
(* "push" (a value pushed to a row of the story), "store" (a story's row   *)
(* pushed to a result grid), "readRow" (a cell of a row of the story under  *)
(* way), "readGrid" (a cell of a row of a result grid) or "readInput" (a    *)
(* cell of the structure).                                                  *)

Event(kind, array, storyIndex, index) ==
    [kind |-> kind, array |-> array, story |-> storyIndex, index |-> index]

\* The events of a loop: those of its passes 1..n, one after the other
RECURSIVE Looped(_, _)
Looped(f, n) == IF n = 0 THEN <<>> ELSE Looped(f, n - 1) \o f[n]

\* The column loop: columnShearForce pushed, storyHeights[storyIndex] read,
\* columnMomentValue pushed
columnLoopEvents(data, storyIndex) ==
    Looped([c \in 1..numColumns(data, storyIndex) |->
               << Event("push", "columnShear", storyIndex, c),
                  Event("readInput", "storyHeights", storyIndex, storyIndex),
                  Event("push", "columnMoment", storyIndex, c) >>],
           numColumns(data, storyIndex))

\* A slip: the rows above read without the test on their length
cumulativeColumnMomentReads_NoLengthCheck(data, storyIndex, col) ==
    Looped([upper \in 1..storyIndex |->
               IF upper = storyIndex
               THEN << Event("readRow", "columnMoment", storyIndex, col) >>
               ELSE << Event("readGrid", "columnMoment", upper, col) >>],
           storyIndex)

\* The loop over upperStoryIndex <= storyIndex at joint col: the rows above
\* are read from the grid where they have that column, the story's own
\* moment from storyColumnMoment
cumulativeColumnMomentReads(data, storyIndex, col) ==
    Looped([upper \in 1..storyIndex |->
               IF upper = storyIndex
               THEN << Event("readRow", "columnMoment", storyIndex, col) >>
               ELSE IF col <= numColumns(data, upper)
                    THEN << Event("readGrid", "columnMoment", upper, col) >>
                    ELSE << >>],
           storyIndex)

\* One pass of the span loop: the joint of the span's left end, the girder
\* moment of the span before it, the push of girderMomentValue, the span
\* length, the joint of the right end, the push of girderShearValue
spanEvents(data, storyIndex, spanIndex) ==
    cumulativeColumnMomentReads(data, storyIndex, spanIndex)
    \o (IF spanIndex = 1 THEN << >>
        ELSE << Event("readRow", "girderMoment", storyIndex, spanIndex - 1) >>)
    \o << Event("push", "girderMoment", storyIndex, spanIndex),
          Event("readInput", "spanMeasurements", storyIndex, spanIndex) >>
    \o cumulativeColumnMomentReads(data, storyIndex, spanIndex + 1)
    \o << Event("push", "girderShear", storyIndex, spanIndex) >>

\* One pass of the story loop, ending with the four rows pushed to the grids
storyEvents(data, storyIndex) ==
    columnLoopEvents(data, storyIndex)
    \o Looped([s \in 1..data.spansPerStory[storyIndex] |->
                  spanEvents(data, storyIndex, s)],
              data.spansPerStory[storyIndex])
    \o << Event("store", "columnShear", storyIndex, 0),
          Event("store", "columnMoment", storyIndex, 0),
          Event("store", "girderShear", storyIndex, 0),
          Event("store", "girderMoment", storyIndex, 0) >>

calculateResultsEvents(data) ==
    Looped([i \in 1..data.numStories |-> storyEvents(data, i)], data.numStories)

-----------------------------------------------------------------------------
(* calculateResults of src/unnamed/part_001 (lines 48-159): the same pass  *)
(* over the stories, with roundToTwoDecimal applied to every value pushed,  *)
(* the joint total taken from the story directly above only, and the girder *)
(* shear taken as 2 * girderMoment / spanLength.                            *)

\* Math.round(num * 100) / 100; Math.round takes a half towards +Infinity
roundToTwoDecimal(num) ==
    IF num.d = 0 THEN num
    ELSE Norm((200 * num.n + num.d) \div (2 * num.d), 100)

storyColumnShearRounded(data, storyIndex) ==
    Pushed([c \in 1..numColumns(data, storyIndex) |->
               roundToTwoDecimal(columnShearForce(data, storyIndex, c))],
           data.spansPerStory[storyIndex] + 1)

storyColumnMomentRounded(data, storyIndex) ==
    Pushed([c \in 1..numColumns(data, storyIndex) |->
               roundToTwoDecimal(columnMomentValue(data, storyIndex, c))],
           data.spansPerStory[storyIndex] + 1)

\* totalColumnMoment: storyColumnMoment[spanIndex], plus
\* columnMoment[storyIndex - 1][spanIndex] when that row has the column
totalColumnMoment(columnMoment, storyIndex, spanIndex) ==
    RAdd(columnMoment[storyIndex][spanIndex],
         IF storyIndex > 1 /\ spanIndex <= Len(columnMoment[storyIndex - 1])
         THEN columnMoment[storyIndex - 1][spanIndex]
         ELSE R(0))

\* storyGirderMoment after the first spans passes of the span loop
RECURSIVE storyGirderMomentRounded(_, _, _)
storyGirderMomentRounded(columnMoment, storyIndex, spans) ==
    IF spans = 0 THEN <<>>
    ELSE LET pushed == storyGirderMomentRounded(columnMoment, storyIndex, spans - 1)
             total == totalColumnMoment(columnMoment, storyIndex, spans)
         IN  Append(pushed,
                    IF spans = 1
                    THEN roundToTwoDecimal(total)
                    ELSE roundToTwoDecimal(RAbs(RSub(total, pushed[spans - 1]))))

\* (2 * girderMoment) / spanLength
girderShearValueRounded(girderMoment, length) ==
    roundToTwoDecimal(RDiv(RMul(R(2), girderMoment), length))

\* One pass of the story loop; columnMoment is the grid of pushed (rounded)
\* column moments, which is what the joints read
storyPassRounded(data, h, columnMoment, storyIndex) ==
    LET spans == data.spansPerStory[storyIndex]
        girderMoment == storyGirderMomentRounded(columnMoment, storyIndex, spans)
        lengths == Pushed([s \in 1..spans |-> spanLength(data, h, storyIndex, s)], spans)
    IN  [columnShear  |-> storyColumnShearRounded(data, storyIndex),
         columnMoment |-> columnMoment[storyIndex],
         girderMoment |-> girderMoment,
         girderShear  |-> Pushed([s \in 1..spans |->
                                     girderShearValueRounded(girderMoment[s], lengths[s])],
                                 spans),
         joint        |-> Pushed([s \in 1..spans |->
                                     totalColumnMoment(columnMoment, storyIndex, s)],
                                 spans),
         right        |-> girderMoment,
         divisor      |-> effectiveColumns(numColumns(data, storyIndex)),
         spanLength   |-> lengths]

allPassesRounded(data, h) ==
    LET columnMoment == Pushed([i \in 1..data.numStories |->
                                   storyColumnMomentRounded(data, i)],
                               data.numStories)
    IN  Pushed([i \in 1..data.numStories |-> storyPassRounded(data, h, columnMoment, i)],
               data.numStories)

calculateResultsRounded(data, h) == resultsOf(allPassesRounded(data, h))

-----------------------------------------------------------------------------
(* StepByStepSolution (StepByStepSolution.tsx), section 4: the girder-shear *)
(* line of every span, as the visualization page renders it                 *)

\* The number that num.toFixed(2) writes: num to two decimals, a tie going
\* to the larger magnitude
toFixed2(num) ==
    IF num.d = 0 THEN num
    ELSE Norm(Sign(num.n) * ((200 * Abs(num.n) + num.d) \div (2 * num.d)), 100)

\* rightMoment of the line: for the last span the last column's moment of
\* this story and of every story above; for the other spans that total at
\* the next joint minus leftMoment, in absolute value
stepRightMoment(results, storyIndex, spanIndex, spans) ==
    LET total == RAdd(results.columnMoment[storyIndex][spanIndex + 1],
                      upperColumnMoments(results.columnMoment, storyIndex - 1, spanIndex + 1))
    IN  IF spanIndex = spans
        THEN total
        ELSE RAbs(RSub(total, results.girderMoment[storyIndex][spanIndex]))

\* V_girder = (leftMoment.toFixed(2) + rightMoment.toFixed(2)) / spanLength m
\*          = shear.toFixed(2): the four numbers the line shows
girderShearLine(data, results, h, storyIndex, spanIndex) ==
    [left   |-> toFixed2(results.girderMoment[storyIndex][spanIndex]),
     right  |-> toFixed2(stepRightMoment(results, storyIndex, spanIndex,
                                         data.spansPerStory[storyIndex])),
     length |-> h[data.spanMeasurements[storyIndex]][spanIndex],
     shear  |-> toFixed2(results.girderShear[storyIndex][spanIndex])]

\* A slip: the page without its early return
Visualization_NoEarlyReturn(has, data, results) == "Frame Analysis Visualization"

\* What the Visualization page returns, by its heading
Visualization(has, data, results) ==
    IF ~has \/ data = NULL \/ results = NULL
    THEN "No Calculations Yet"
    ELSE "Frame Analysis Visualization"

\* The visualization page renders the solution only once a calculation exists
StepByStepShown ==
    /\ route = "/visualization"
    /\ hasCalculated
    /\ structureData # NULL
    /\ calculationResults # NULL

-----------------------------------------------------------------------------
(* The heap of spanMeasurements rows *)

\* Addresses a structure holds
Refs(d) ==
    IF d = NULL THEN {}
    ELSE {d.spanMeasurements[i] : i \in 1..Len(d.spanMeasurements)}

Live(fd, pend, sd) ==
    Refs(fd) \cup Refs(sd) \cup UNION {Refs(pend[k]) : k \in 1..Len(pend)}

\* A slip: the rows that stay are left empty, as if a reader had consumed
\* them with shift()
Collect_RowsConsumed(h, fd, pend, sd) == [a \in (Live(fd, pend, sd) \cap DOMAIN h) |-> <<>>]

\* Garbage collection: rows nobody holds any more disappear
Collect(h, fd, pend, sd) == [a \in (Live(fd, pend, sd) \cap DOMAIN h) |-> h[a]]

\* The n smallest addresses outside used, in increasing order
RECURSIVE FreshAddrs(_, _)
FreshAddrs(used, n) ==
    IF n = 0 THEN <<>>
    ELSE LET a == CHOOSE x \in 1..(Cardinality(used) + 1) :
                     x \notin used /\ \A y \in 1..(x - 1) : y \in used
         IN  <<a>> \o FreshAddrs(used \cup {a}, n - 1)

\* h extended with the rows newRows at the addresses addrs
Store(h, addrs, newRows) ==
    [a \in DOMAIN h \cup {addrs[k] : k \in 1..Len(addrs)} |->
        IF \E k \in 1..Len(addrs) : addrs[k] = a
        THEN newRows[CHOOSE k \in 1..Len(addrs) : addrs[k] = a]
        ELSE h[a]]

\* Array(n).fill(v)
Fill(n, v) == [k \in 1..n |-> v]

-----------------------------------------------------------------------------
(* CalculatorForm *)

Routes == {"/", "/calculator", "/visualization"}

\* The useState initial value of formData, which handleReset sets again
initialFormData(addrs) ==
    [numStories       |-> DefaultStories,
     storyHeights     |-> Fill(DefaultStories, R(DefaultHeight)),
     structureType    |-> "REGULAR",
     spansPerStory    |-> Fill(DefaultStories, DefaultSpans),
     spanMeasurements |-> addrs,
     lateralLoads     |-> Fill(DefaultStories, R(DefaultLoad))]

initialRows == Fill(DefaultStories, Fill(DefaultSpans, R(DefaultSpan)))

hasValidStories(fd) == fd.numStories > 0 /\ fd.numStories <= MaxStories

hasValidStoryHeights(fd) ==
    \A i \in 1..Len(fd.storyHeights) : RPos(fd.storyHeights[i])

hasValidSpans(fd) ==
    \A i \in 1..Len(fd.spansPerStory) :
        fd.spansPerStory[i] > 0 /\ fd.spansPerStory[i] <= MaxSpans

hasValidSpanMeasurements(fd, h) ==
    \A index \in 1..Len(fd.spanMeasurements) :
        LET measurements == h[fd.spanMeasurements[index]]
        IN  /\ index <= Len(fd.spansPerStory)
            /\ Len(measurements) = fd.spansPerStory[index]
            /\ \A m \in 1..Len(measurements) : RPos(measurements[m])

hasValidLateralLoads(fd) ==
    \A i \in 1..Len(fd.lateralLoads) : RPos(fd.lateralLoads[i])

\* The value validateForm hands to setIsFormValid
validateForm(fd, h) ==
    /\ hasValidStories(fd)
    /\ hasValidStoryHeights(fd)
    /\ hasValidSpans(fd)
    /\ hasValidSpanMeasurements(fd, h)
    /\ hasValidLateralLoads(fd)

-----------------------------------------------------------------------------
(* What the user can enter *)

StructureTypes == {"REGULAR", "IRREGULAR"}

\* parseInt(e.target.value) of the two selects, and one value past each maximum
StoryInputs == (1..FormStories) \cup {MaxStories + 1}

SpanInputs == (1..FormSpans) \cup {MaxSpans + 1}

\* parseFloat(e.target.value) of the number inputs: an emptied input gives NaN
HeightInputs == {R(0), R(2)}

LoadInputs == {NaN, R(5)}

LengthInputs == {R(0), R(5)}

-----------------------------------------------------------------------------
(* Steps *)

\* The form is mounted while the calculator page is shown
Mounted == route = "/calculator"

\* The end of every handler that calls setFormData: the new formData is
\* rendered and the effect on [formData] runs validateForm
SetFormData(op, fd, h) ==
    LET h2 == Collect(h, fd, pending, structureData)
    IN  /\ formData' = fd
        /\ heap' = h2
        /\ isFormValid' = validateForm(fd, h2)
        /\ lastOp' = op
        /\ ops' = ops + 1
        /\ UNCHANGED <<isCalculating, pending, structureData, calculationResults,
                       hasCalculated, route, locals>>

\* A handler that only shows an error toast and returns
Rejected(op) ==
    /\ toast' = "error"
    /\ lastOp' = op
    /\ ops' = ops + 1
    /\ UNCHANGED <<formData, isFormValid, isCalculating, pending, heap, structureData,
                   calculationResults, hasCalculated, route, locals>>

\* A slip: the check against the maximum left out
handleNumberOfStoriesChange_NoLimit(numStories) ==
    /\ Mounted
    /\ ops < MaxOps
    /\ numStories # formData.numStories
    /\ LET addrs == FreshAddrs(DOMAIN heap, numStories)
           spansPerStory == Fill(numStories, DefaultSpans)
           rows == [i \in 1..numStories |-> Fill(spansPerStory[i], R(DefaultSpan))]
       IN  /\ SetFormData("handleNumberOfStoriesChange",
                          [formData EXCEPT
                              !.numStories = numStories,
                              !.storyHeights = Fill(numStories, R(DefaultHeight)),
                              !.spansPerStory = spansPerStory,
                              !.spanMeasurements = addrs,
                              !.lateralLoads = Fill(numStories, R(DefaultLoad))],
                          Store(heap, addrs, rows))
           /\ UNCHANGED toast

handleNumberOfStoriesChange(numStories) ==
    /\ Mounted
    /\ ops < MaxOps
    /\ numStories # formData.numStories
    /\ IF numStories > MaxStories
       THEN Rejected("handleNumberOfStoriesChange")
       ELSE LET addrs == FreshAddrs(DOMAIN heap, numStories)
                spansPerStory == Fill(numStories, DefaultSpans)
                rows == [i \in 1..numStories |-> Fill(spansPerStory[i], R(DefaultSpan))]
            IN  /\ SetFormData("handleNumberOfStoriesChange",
                               [formData EXCEPT
                                   !.numStories = numStories,
                                   !.storyHeights = Fill(numStories, R(DefaultHeight)),
                                   !.spansPerStory = spansPerStory,
                                   !.spanMeasurements = addrs,
                                   !.lateralLoads = Fill(numStories, R(DefaultLoad))],
                               Store(heap, addrs, rows))
                /\ UNCHANGED toast

handleStoryHeightChange(index, value) ==
    /\ Mounted
    /\ ops < MaxOps
    /\ index \in 1..formData.numStories
    /\ value # formData.storyHeights[index]
    /\ SetFormData("handleStoryHeightChange",
                   [formData EXCEPT !.storyHeights[index] = value], heap)
    /\ UNCHANGED toast

handleStructureTypeChange(value) ==
    /\ Mounted
    /\ ops < MaxOps
    /\ value # formData.structureType
    /\ SetFormData("handleStructureTypeChange",
                   [formData EXCEPT !.structureType = value], heap)
    /\ UNCHANGED toast

\* A slip: the span count changed, the row of measurements left as it was
handleSpansPerStoryChange_KeepsRow(index, value) ==
    /\ Mounted
    /\ ops < MaxOps
    /\ index \in 1..formData.numStories
    /\ value # formData.spansPerStory[index]
    /\ IF value > MaxSpans
       THEN Rejected("handleSpansPerStoryChange")
       ELSE /\ SetFormData("handleSpansPerStoryChange",
                           [formData EXCEPT !.spansPerStory[index] = value], heap)
            /\ UNCHANGED toast

handleSpansPerStoryChange(index, value) ==
    /\ Mounted
    /\ ops < MaxOps
    /\ index \in 1..formData.numStories
    /\ value # formData.spansPerStory[index]
    /\ IF value > MaxSpans
       THEN Rejected("handleSpansPerStoryChange")
       ELSE LET addrs == FreshAddrs(DOMAIN heap, 1)
            IN  /\ SetFormData("handleSpansPerStoryChange",
                               [formData EXCEPT
                                   !.spansPerStory[index] = value,
                                   !.spanMeasurements[index] = addrs[1]],
                               Store(heap, addrs, <<Fill(value, R(DefaultSpan))>>))
                /\ UNCHANGED toast

\* newSpanMeasurements copies the outer array only: the assignment writes
\* into the inner array that formData, the captured snapshots and
\* structureData may all hold
handleSpanMeasurementChange(storyIndex, spanIndex, value) ==
    /\ Mounted
    /\ ops < MaxOps
    /\ storyIndex \in 1..formData.numStories
    /\ spanIndex \in 1..formData.spansPerStory[storyIndex]
    /\ value # heap[formData.spanMeasurements[storyIndex]][spanIndex]
    /\ SetFormData("handleSpanMeasurementChange", formData,
                   [heap EXCEPT ![formData.spanMeasurements[storyIndex]][spanIndex] = value])
    /\ UNCHANGED toast

handleLateralLoadChange(index, value) ==
    /\ Mounted
    /\ ops < MaxOps
    /\ index \in 1..formData.numStories
    /\ value # formData.lateralLoads[index]
    /\ SetFormData("handleLateralLoadChange",
                   [formData EXCEPT !.lateralLoads[index] = value], heap)
    /\ UNCHANGED toast

\* setTimeout's callback closes over the formData object of this render
handleSubmit ==
    /\ Mounted
    /\ ops < MaxOps
    /\ IF ~isFormValid
       THEN Rejected("handleSubmit")
       ELSE /\ Len(pending) < MaxPending
            /\ isCalculating' = TRUE
            /\ pending' = Append(pending, formData)
            /\ lastOp' = "handleSubmit"
            /\ ops' = ops + 1
            /\ UNCHANGED <<formData, isFormValid, heap, structureData, calculationResults,
                           hasCalculated, toast, route, locals>>

\* disabled={isCalculating || !isFormValid} of the submit button
submitDisabled == isCalculating \/ ~isFormValid

\* The user submits the form: the browser raises the submit event only while
\* the form's submit button is enabled
submit == ~submitDisabled /\ handleSubmit

handleReset ==
    /\ Mounted
    /\ ops < MaxOps
    /\ LET addrs == FreshAddrs(DOMAIN heap, DefaultStories)
       IN  SetFormData("handleReset", initialFormData(addrs),
                       Store(heap, addrs, initialRows))
    /\ toast' = "info"

\* The callback handleSubmit gave to setTimeout.  onCalculate is the
\* provider's calculateResults, and navigate('/visualization') takes the
\* calculator page, and the form with it, off the screen.
\* A slip: the callback without setIsCalculating(false)
timerCallback_StillCalculating ==
    /\ pending # <<>>
    /\ LET data == Head(pending)
           passes == allPasses(data, heap)
       IN  /\ calculationResults' = resultsOf(passes)
           /\ locals' = localsOf(passes)
           /\ structureData' = data
           /\ hasCalculated' = TRUE
           /\ pending' = Tail(pending)
           /\ heap' = Collect(heap, NULL, Tail(pending), data)
    /\ formData' = NULL
    /\ isFormValid' = FALSE
    /\ isCalculating' = isCalculating
    /\ toast' = "success"
    /\ route' = "/visualization"
    /\ lastOp' = "timerCallback"
    /\ UNCHANGED ops

\* A slip: the results are stored, the structure they belong to is not
timerCallback_KeepsStructure ==
    /\ pending # <<>>
    /\ LET data == Head(pending)
           passes == allPasses(data, heap)
       IN  /\ calculationResults' = resultsOf(passes)
           /\ locals' = localsOf(passes)
           /\ structureData' = structureData
           /\ hasCalculated' = TRUE
           /\ pending' = Tail(pending)
           /\ heap' = Collect(heap, NULL, Tail(pending), data)
    /\ formData' = NULL
    /\ isFormValid' = FALSE
    /\ isCalculating' = FALSE
    /\ toast' = "success"
    /\ route' = "/visualization"
    /\ lastOp' = "timerCallback"
    /\ UNCHANGED ops

timerCallback ==
    /\ pending # <<>>
    /\ LET data == Head(pending)
           passes == allPasses(data, heap)
       IN  /\ calculationResults' = resultsOf(passes)
           /\ locals' = localsOf(passes)
           /\ structureData' = data
           /\ hasCalculated' = TRUE
           /\ pending' = Tail(pending)
           /\ heap' = Collect(heap, NULL, Tail(pending), data)
    /\ formData' = NULL
    /\ isFormValid' = FALSE
    /\ isCalculating' = FALSE
    /\ toast' = "success"
    /\ route' = "/visualization"
    /\ lastOp' = "timerCallback"
    /\ UNCHANGED ops

\* The same callback when the provider is the one of src/unnamed/part_001
timerCallbackRounded ==
    /\ pending # <<>>
    /\ LET data == Head(pending)
           passes == allPassesRounded(data, heap)
       IN  /\ calculationResults' = resultsOf(passes)
           /\ locals' = localsOf(passes)
           /\ structureData' = data
           /\ hasCalculated' = TRUE
           /\ pending' = Tail(pending)
           /\ heap' = Collect(heap, NULL, Tail(pending), data)
    /\ formData' = NULL
    /\ isFormValid' = FALSE
    /\ isCalculating' = FALSE
    /\ toast' = "success"
    /\ route' = "/visualization"
    /\ lastOp' = "timerCallback"
    /\ UNCHANGED ops

\* A link of the header or a button of a page: leaving the calculator page
\* unmounts the form, entering it mounts a new one in its initial state.
\* It is not an operation of the form, so ops does not count it.
navigate(to) ==
    /\ ops < MaxOps
    /\ to # route
    /\ IF to = "/calculator"
       THEN LET addrs == FreshAddrs(DOMAIN heap, DefaultStories)
                fd == initialFormData(addrs)
                h2 == Collect(Store(heap, addrs, initialRows), fd, pending, structureData)
            IN  /\ formData' = fd
                /\ heap' = h2
                /\ isFormValid' = validateForm(fd, h2)
       ELSE /\ formData' = NULL
            /\ heap' = Collect(heap, NULL, pending, structureData)
            /\ isFormValid' = FALSE
    /\ isCalculating' = FALSE
    /\ route' = to
    /\ lastOp' = "navigate"
    /\ UNCHANGED <<pending, structureData, calculationResults, hasCalculated, toast, locals, ops>>

-----------------------------------------------------------------------------
(* Spec: the application, opened on the calculator page *)

Init ==
    /\ formData = initialFormData(<<1, 2>>)
    /\ heap = initialRows
    /\ isFormValid = validateForm(formData, heap)
    /\ isCalculating = FALSE
    /\ pending = <<>>
    /\ structureData = NULL
    /\ calculationResults = NULL
    /\ hasCalculated = FALSE
    /\ toast = "none"
    /\ route = "/calculator"
    /\ lastOp = "mount"
    /\ locals = NULL
    /\ ops = 0

Next ==
    \/ \E n \in StoryInputs : handleNumberOfStoriesChange(n)
    \/ \E i \in 1..MaxStories, v \in HeightInputs : handleStoryHeightChange(i, v)
    \/ \E t \in StructureTypes : handleStructureTypeChange(t)
    \/ \E i \in 1..MaxStories, v \in SpanInputs : handleSpansPerStoryChange(i, v)
    \/ \E i \in 1..MaxStories, s \in 1..MaxSpans, v \in LengthInputs :
          handleSpanMeasurementChange(i, s, v)
    \/ \E i \in 1..MaxStories, v \in LoadInputs : handleLateralLoadChange(i, v)
    \/ submit
    \/ handleReset
    \/ timerCallback
    \/ \E to \in Routes : navigate(to)

Spec == Init /\ [][Next]_vars

\* The steps of Next on which a scheduled callback runs: the timerCallback
\* steps, told by what they do to pending and lastOp
timerFires ==
    /\ pending # <<>>
    /\ pending' = Tail(pending)
    /\ lastOp' = "timerCallback"

\* setTimeout(..., 1500) is never cleared: a callback that has been scheduled
\* does run
SpecLive == Init /\ [][Next]_vars /\ WF_pending(timerFires)

-----------------------------------------------------------------------------
(* SpecEngine: calculateResults on every structure of a bounded family,   *)
(* each entered in the form, submitted and calculated                      *)

\* Heights, loads and span lengths: the form's defaults everywhere, or values
\* that differ from story to story (and from span to span)
Patterns == {"uniform", "varied"}

patternHeights(pattern, n) ==
    [i \in 1..n |-> IF pattern = "uniform" \/ i % 2 = 0
                    THEN R(DefaultHeight)
                    ELSE [n |-> 5, d |-> 2]]

patternLoads(pattern, n) ==
    [i \in 1..n |-> IF pattern = "uniform" THEN R(DefaultLoad) ELSE R(4 + 3 * i)]

patternRow(pattern, i, spans) ==
    [s \in 1..spans |-> IF pattern = "uniform" THEN R(DefaultSpan) ELSE R(1 + i + s)]

InitEngine ==
    /\ \E n \in 1..EngStories :
         \E spans \in [1..n -> 1..EngSpans], heightPattern \in Patterns,
            loadPattern \in Patterns, lengthPattern \in Patterns,
            type \in StructureTypes :
            /\ formData = [numStories       |-> n,
                           storyHeights     |-> patternHeights(heightPattern, n),
                           structureType    |-> type,
                           spansPerStory    |-> spans,
                           spanMeasurements |-> [i \in 1..n |-> i],
                           lateralLoads     |-> patternLoads(loadPattern, n)]
            /\ heap = [i \in 1..n |-> patternRow(lengthPattern, i, spans[i])]
    /\ isFormValid = validateForm(formData, heap)
    /\ isCalculating = FALSE
    /\ pending = <<>>
    /\ structureData = NULL
    /\ calculationResults = NULL
    /\ hasCalculated = FALSE
    /\ toast = "none"
    /\ route = "/calculator"
    /\ lastOp = "mount"
    /\ locals = NULL
    /\ ops = 0

\* One submit of the structure, then its timer
NextEngine ==
    \/ (pending = <<>> /\ handleSubmit)
    \/ timerCallback

SpecEngine == InitEngine /\ [][NextEngine]_vars

\* SpecRounded: the same structures, calculated by the provider of
\* src/unnamed/part_001
NextRounded ==
    \/ (pending = <<>> /\ handleSubmit)
    \/ timerCallbackRounded

SpecRounded == InitEngine /\ [][NextRounded]_vars

-----------------------------------------------------------------------------
(* Properties of a finished calculation.  They read the result grids, the  *)
(* structure they were computed from and the locals of the call.           *)

Stories == 1..structureData.numStories

SpansOf(i) == structureData.spansPerStory[i]

ColumnsOf(i) == SpansOf(i) + 1

LengthOf(i, s) == heap[structureData.spanMeasurements[i]][s]

\* lateralLoads[0] + ... + lateralLoads[i], story i counted from 1
RECURSIVE LoadSum(_)
LoadSum(i) == IF i = 0 THEN R(0) ELSE RAdd(LoadSum(i - 1), structureData.lateralLoads[i])

\* jointColumnMoment of the specification: the column moment of story i at
\* column c, plus that of story i-1 when column c exists there
JointColumnMoment(i, c) ==
    RAdd(calculationResults.columnMoment[i][c],
         IF i > 1 /\ c <= ColumnsOf(i - 1)
         THEN calculationResults.columnMoment[i - 1][c]
         ELSE R(0))

\* C1: the column-moment total used at joint (i, c) is columnMoment[i][c]
\* plus columnMoment[i-1][c] when column c exists on story i-1, with nothing
\* from story i-2 or above
C1_JointTotalFromAdjacentStoryOnly ==
    hasCalculated =>
        \A i \in Stories : \A c \in 1..ColumnsOf(i) :
            locals.joint[i][c] = JointColumnMoment(i, c)

\* C2: girderMoment[i][0] is the joint column moment at joint 0 and every
\* later girderMoment[i][s] is |joint column moment at s - girderMoment[i][s-1]|
C2_GirderMomentRecurrence ==
    hasCalculated =>
        \A i \in Stories :
            /\ calculationResults.girderMoment[i][1] = JointColumnMoment(i, 1)
            /\ \A s \in 2..SpansOf(i) :
                  calculationResults.girderMoment[i][s] =
                      RAbs(RSub(JointColumnMoment(i, s),
                                calculationResults.girderMoment[i][s - 1]))

\* C3: an exterior column's shear is (sum of lateralLoads[0..i]) /
\* (2*numColumns - 2), and every interior column's shear is twice that
C3_ColumnShearDistribution ==
    hasCalculated =>
        \A i \in Stories :
            LET exterior == RDiv(LoadSum(i), R(2 * ColumnsOf(i) - 2))
            IN  \A c \in 1..ColumnsOf(i) :
                    calculationResults.columnShear[i][c] =
                        IF c = 1 \/ c = ColumnsOf(i) THEN exterior
                        ELSE RMul(R(2), exterior)

\* A lower story with two interior columns has been calculated
C3_Witness ==
    /\ hasCalculated
    /\ \E i \in Stories : i > 1 /\ ColumnsOf(i) = 4

\* C4: columnMoment[i][c] is columnShear[i][c] times half of storyHeights[i]
C4_ColumnMomentIsShearTimesHalfHeight ==
    hasCalculated =>
        \A i \in Stories : \A c \in 1..ColumnsOf(i) :
            calculationResults.columnMoment[i][c] =
                RMul(calculationResults.columnShear[i][c],
                     RDiv(structureData.storyHeights[i], R(2)))

\* Two stories of different heights have been calculated
C4_Witness ==
    /\ hasCalculated
    /\ \E i, j \in Stories : structureData.storyHeights[i] # structureData.storyHeights[j]

C6_RightmostGirderShear ==
    hasCalculated =>
        \A i \in Stories :
            calculationResults.girderShear[i][SpansOf(i)] =
                RDiv(RAdd(calculationResults.girderMoment[i][SpansOf(i)],
                          JointColumnMoment(i, ColumnsOf(i))),
                     LengthOf(i, SpansOf(i)))

\* C7: when story i has more columns than the story above, every joint past
\* the last column of the story above inherits exactly 0, and story i still
\* gets a girder moment and a girder shear for every span
C7_NoInheritedMomentPastUpperStory ==
    hasCalculated =>
        \A i \in Stories :
            (i > 1 /\ ColumnsOf(i) > ColumnsOf(i - 1)) =>
                /\ \A c \in (ColumnsOf(i - 1) + 1)..ColumnsOf(i) :
                      locals.joint[i][c] = calculationResults.columnMoment[i][c]
                /\ Len(calculationResults.girderMoment[i]) = SpansOf(i)
                /\ Len(calculationResults.girderShear[i]) = SpansOf(i)
                /\ \A s \in 1..SpansOf(i) :
                      /\ IsFinite(calculationResults.girderMoment[i][s])
                      /\ IsFinite(calculationResults.girderShear[i][s])

\* C8: each grid has numStories rows; row i of columnShear and columnMoment
\* has spansPerStory[i] + 1 cells, row i of girderMoment and girderShear has
\* spansPerStory[i] cells, and every cell holds a number
C8_ResultGridShape ==
    hasCalculated =>
        /\ Len(calculationResults.columnShear) = structureData.numStories
        /\ Len(calculationResults.columnMoment) = structureData.numStories
        /\ Len(calculationResults.girderMoment) = structureData.numStories
        /\ Len(calculationResults.girderShear) = structureData.numStories
        /\ \A i \in Stories :
              /\ Len(calculationResults.columnShear[i]) = SpansOf(i) + 1
              /\ Len(calculationResults.columnMoment[i]) = SpansOf(i) + 1
              /\ Len(calculationResults.girderMoment[i]) = SpansOf(i)
              /\ Len(calculationResults.girderShear[i]) = SpansOf(i)
              /\ \A c \in 1..(SpansOf(i) + 1) :
                    /\ IsFinite(calculationResults.columnShear[i][c])
                    /\ IsFinite(calculationResults.columnMoment[i][c])
              /\ \A s \in 1..SpansOf(i) :
                    /\ IsFinite(calculationResults.girderMoment[i][s])
                    /\ IsFinite(calculationResults.girderShear[i][s])

\* A structure whose stories differ in their number of spans has been calculated
C8_Witness ==
    /\ hasCalculated
    /\ \E i, j \in Stories : SpansOf(i) # SpansOf(j)

\* k thousandths
Milli(k) == Norm(k, 1000)

\* The structure calculated is the worked example, which is also the form's
\* initial data
IsDefaultExample ==
    /\ structureData.numStories = DefaultStories
    /\ structureData.storyHeights = <<R(3), R(3)>>
    /\ structureData.spansPerStory = <<2, 2>>
    /\ structureData.lateralLoads = <<R(10), R(10)>>
    /\ \A i \in 1..2 : heap[structureData.spanMeasurements[i]] = <<R(4), R(4)>>
    /\ structureData.storyHeights = initialFormData(<<>>).storyHeights
    /\ structureData.spansPerStory = initialFormData(<<>>).spansPerStory
    /\ structureData.lateralLoads = initialFormData(<<>>).lateralLoads
    /\ \A i \in 1..2 : heap[structureData.spanMeasurements[i]] = initialRows[i]

\* C12: for storyHeights [3,3], spansPerStory [2,2], span lengths [[4,4],[4,4]]
\* and lateralLoads [10,10], story 0 has columnShear [2.5, 5, 2.5],
\* columnMoment [3.75, 7.5, 3.75], girderMoment [3.75, 3.75] and
\* girderShear[0][0] = 1.875; story 1 has cumulative load 20, columnShear
\* [5, 10, 5], and joint totals that add story 0's column moments at the
\* same columns
C12_DefaultExample ==
    (hasCalculated /\ IsDefaultExample) =>
        /\ calculationResults.columnShear[1] = <<Milli(2500), Milli(5000), Milli(2500)>>
        /\ calculationResults.columnMoment[1] = <<Milli(3750), Milli(7500), Milli(3750)>>
        /\ calculationResults.girderMoment[1] = <<Milli(3750), Milli(3750)>>
        /\ calculationResults.girderShear[1][1] = Milli(1875)
        /\ cumulativeLoad(structureData, 2) = R(20)
        /\ calculationResults.columnShear[2] = <<R(5), R(10), R(5)>>
        /\ \A c \in 1..3 :
              locals.joint[2][c] = RAdd(calculationResults.columnMoment[2][c],
                                        calculationResults.columnMoment[1][c])

\* The worked example has been calculated
C12_Witness == hasCalculated /\ IsDefaultExample

\* The structure calculated has one story and one bay
IsSingleBay == structureData.numStories = 1 /\ SpansOf(1) = 1

\* C13: a single story of one bay with lateral load L, height h and span
\* length S has columnShear [L/2, L/2], columnMoment [L*h/4, L*h/4],
\* girderMoment [L*h/4] and girderShear [(L*h/4 + L*h/4) / S]
C13_SingleStorySingleBay ==
    (hasCalculated /\ IsSingleBay) =>
        LET L == structureData.lateralLoads[1]
            h == structureData.storyHeights[1]
            S == LengthOf(1, 1)
            quarter == RDiv(RMul(L, h), R(4))
        IN  /\ calculationResults.columnShear[1] = <<RDiv(L, R(2)), RDiv(L, R(2))>>
            /\ calculationResults.columnMoment[1] = <<quarter, quarter>>
            /\ calculationResults.girderMoment[1] = <<quarter>>
            /\ calculationResults.girderShear[1] = <<RDiv(RAdd(quarter, quarter), S)>>

\* A single bay whose load, height and length are not the defaults has been
\* calculated
C13_Witness ==
    /\ hasCalculated
    /\ IsSingleBay
    /\ structureData.lateralLoads[1] # R(DefaultLoad)
    /\ structureData.storyHeights[1] # R(DefaultHeight)
    /\ LengthOf(1, 1) # R(DefaultSpan)

\* row[1] + ... + row[k]
RECURSIVE RowSum(_, _)
RowSum(row, k) == IF k = 0 THEN R(0) ELSE RAdd(RowSum(row, k - 1), row[k])

RGe(x, y) == RNonNeg(RSub(x, y))

\* C15: with non-negative lateral loads the cumulative load never decreases
\* from story i-1 to story i, and between two adjacent stories of the same
\* number of spans no column's shear is smaller on the lower story
C15_ShearGrowsDownwards ==
    (/\ hasCalculated
     /\ \A i \in Stories : RNonNeg(structureData.lateralLoads[i])) =>
        \A i \in Stories \ {1} :
            /\ RGe(LoadSum(i), LoadSum(i - 1))
            /\ SpansOf(i) = SpansOf(i - 1) =>
                  \A c \in 1..ColumnsOf(i) :
                      RGe(calculationResults.columnShear[i][c],
                          calculationResults.columnShear[i - 1][c])

\* Two adjacent stories of the same number of spans, with interior columns
\* and different loads, have been calculated
C15_Witness ==
    /\ hasCalculated
    /\ \E i \in Stories \ {1} :
          /\ SpansOf(i) = SpansOf(i - 1)
          /\ SpansOf(i) >= 2
          /\ structureData.lateralLoads[i] # structureData.lateralLoads[i - 1]

\* C16: a structure and the one that differs from it in structureType only
\* (REGULAR for IRREGULAR) have the same values in all four result grids
C16_StructureTypeHasNoEffect ==
    hasCalculated =>
        \A t \in StructureTypes :
            calculateResults([structureData EXCEPT !.structureType = t], heap) =
                calculationResults

\* An IRREGULAR structure whose stories differ in their number of spans has
\* been calculated
C16_Witness ==
    /\ hasCalculated
    /\ structureData.structureType = "IRREGULAR"
    /\ \E i, j \in Stories : SpansOf(i) # SpansOf(j)

-----------------------------------------------------------------------------
(* Properties of the order of evaluation inside calculateResults *)

\* The story whose pass is under way at event k: one more than the number of
\* passes that have pushed their last row before it
StoryUnderWay(ev, k) ==
    1 + Cardinality({j \in 1..(k - 1) :
                        ev[j].kind = "store" /\ ev[j].array = "girderMoment"})

\* The cell that event k reads holds a value: a cell of a row of the story
\* under way has been pushed, a cell of a grid belongs to a row that has been
\* stored after the cell was pushed, a cell of the structure exists
ReadsWrittenCell(ev, k, data, h) ==
    CASE ev[k].kind = "readRow" ->
            \E j \in 1..(k - 1) :
                ev[j] = Event("push", ev[k].array, ev[k].story, ev[k].index)
      [] ev[k].kind = "readGrid" ->
            \E j \in 1..(k - 1) :
                /\ ev[j] = Event("store", ev[k].array, ev[k].story, 0)
                /\ \E g \in 1..(j - 1) :
                      ev[g] = Event("push", ev[k].array, ev[k].story, ev[k].index)
      [] ev[k].kind = "readInput" /\ ev[k].array = "storyHeights" ->
            ev[k].index \in 1..Len(data.storyHeights)
      [] ev[k].kind = "readInput" /\ ev[k].array = "spanMeasurements" ->
            /\ ev[k].story \in 1..Len(data.spanMeasurements)
            /\ ev[k].index \in 1..Len(h[data.spanMeasurements[ev[k].story]])
      [] OTHER -> TRUE

\* C27: during calculateResults every read is of a cell already written: a
\* span reads the girder moment of the span before it in the same story,
\* column moments of the same story and column moments of rows of stories
\* with a smaller index, all written before the read; the stories are
\* processed in index order, each exactly once
C27_ReadsAfterWrites ==
    hasCalculated =>
        LET ev == calculateResultsEvents(structureData)
        IN  /\ \A k \in 1..Len(ev) :
                  /\ ReadsWrittenCell(ev, k, structureData, heap)
                  /\ ev[k].kind \in {"push", "store", "readRow"} =>
                        ev[k].story = StoryUnderWay(ev, k)
                  /\ ev[k].kind = "readGrid" =>
                        /\ ev[k].array = "columnMoment"
                        /\ ev[k].story < StoryUnderWay(ev, k)
                  /\ (ev[k].kind = "readRow" /\ ev[k].array = "girderMoment") =>
                        /\ k < Len(ev)
                        /\ ev[k + 1] = Event("push", "girderMoment",
                                             ev[k].story, ev[k].index + 1)
            /\ StoryUnderWay(ev, Len(ev) + 1) = structureData.numStories + 1

\* A calculation of a frame whose second story is wider than its first: the
\* joints of the columns the first story does not have must skip its row
C27_Witness ==
    /\ hasCalculated
    /\ structureData.numStories >= 2
    /\ structureData.spansPerStory[1] < structureData.spansPerStory[2]
    /\ structureData.spansPerStory[2] >= 2

\* C28: for each story, every girder moment of that story is computed before
\* any girder shear of that story is computed
C28_MomentsBeforeShears ==
    hasCalculated =>
        LET ev == calculateResultsEvents(structureData)
        IN  \A m, v \in 1..Len(ev) :
                (/\ ev[m].kind = "push" /\ ev[m].array = "girderMoment"
                 /\ ev[v].kind = "push" /\ ev[v].array = "girderShear"
                 /\ ev[m].story = ev[v].story) => m < v

-----------------------------------------------------------------------------
(* Properties of the form and its timer *)

\* The validity checks of the specification's validator, on a structure whose
\* rows are read from heap h
StructurallyValid(d, h) ==
    /\ d.numStories >= 1
    /\ Len(d.storyHeights) = d.numStories
    /\ Len(d.spansPerStory) = d.numStories
    /\ Len(d.spanMeasurements) = d.numStories
    /\ Len(d.lateralLoads) = d.numStories
    /\ \A i \in 1..d.numStories :
          /\ RPos(d.storyHeights[i])
          /\ d.spansPerStory[i] >= 1
          /\ Len(h[d.spanMeasurements[i]]) = d.spansPerStory[i]
          /\ \A s \in 1..Len(h[d.spanMeasurements[i]]) : RPos(h[d.spanMeasurements[i]][s])
          /\ RNonNeg(d.lateralLoads[i])

\* C9: analysis never runs on structurally invalid data: the structure a
\* timer hands to calculateResults is valid, and a submit while the form data
\* is invalid shows an error, starts no calculation and leaves
\* calculationResults, structureData and hasCalculated as they were
C9_NoAnalysisOfInvalidData ==
    [][/\ lastOp' = "timerCallback" => StructurallyValid(Head(pending), heap)
       /\ (lastOp' = "handleSubmit" /\ ~StructurallyValid(formData, heap)) =>
             /\ toast' = "error"
             /\ pending' = pending
             /\ UNCHANGED <<calculationResults, structureData, hasCalculated>>]_vars

\* C10: in every calculateResults call the column-shear divisor is at least 2
\* and every span length divided by is greater than 0, so every cell of the
\* result is a finite number
C10_DivisorsPositiveResultFinite ==
    hasCalculated =>
        \A i \in Stories :
            /\ locals.divisor[i] >= 2
            /\ \A s \in 1..SpansOf(i) :
                  /\ RPos(locals.spanLength[i][s])
                  /\ IsFinite(calculationResults.girderMoment[i][s])
                  /\ IsFinite(calculationResults.girderShear[i][s])
            /\ \A c \in 1..ColumnsOf(i) :
                  /\ IsFinite(calculationResults.columnShear[i][c])
                  /\ IsFinite(calculationResults.columnMoment[i][c])

\* C23: the structure a timer hands to calculateResults equals, field by field
\* and cell by cell, the form data at the instant of its submit. A pending
\* timer may fire after any step, so this says that no step changes a field or
\* a cell of a structure that a pending timer holds
C23_SubmittedSnapshotKept ==
    [][\A k \in 1..Len(pending) :
          \A i \in 1..Len(pending[k].spanMeasurements) :
              heap'[pending[k].spanMeasurements[i]] =
                  heap[pending[k].spanMeasurements[i]]]_vars

\* C26: at most one calculation is pending at any time: from an accepted
\* submit until its timer fires isCalculating is true and the submit control
\* of the form on screen is disabled, so no second timer is started
C26_AtMostOnePending ==
    /\ Len(pending) <= 1
    /\ (pending # <<>> /\ Mounted) => (isCalculating /\ submitDisabled)

\* Every story has the same number of spans
HasEqualSpans == \A i \in Stories : SpansOf(i) = SpansOf(1)

\* C29: when every story has the same number of spans, all girder moments of
\* a story equal the column-moment total of its first joint, the total at the
\* last column equals the last girder moment, so that every girder shear is
\* 2 * girderMoment / spanLength; and the copies of calculateResults that
\* take the right-end moment equal to the left-end moment (the second one of
\* CalculationContext.tsx, the one of src/unnamed/part_001, which also rounds
\* to two decimals) give the same girder shears
C29_EqualSpansDoubleMoment ==
    (hasCalculated /\ HasEqualSpans) =>
        \A i \in Stories :
            /\ locals.joint[i][ColumnsOf(i)] = calculationResults.girderMoment[i][SpansOf(i)]
            /\ \A s \in 1..SpansOf(i) :
                  LET gm == calculationResults.girderMoment[i][s]
                      shear == calculationResults.girderShear[i][s]
                  IN  /\ gm = locals.joint[i][1]
                      /\ shear = RDiv(RMul(R(2), gm), LengthOf(i, s))
                      /\ shear = girderShearValue(
                                     gm,
                                     rightMoment_SameAsLeft(calculationResults.columnMoment,
                                                            gm, i, s, SpansOf(i)),
                                     LengthOf(i, s))
                      /\ calculateResultsRounded(structureData, heap).girderShear[i][s] =
                             roundToTwoDecimal(shear)

\* C30: for a structure with non-negative lateral loads, positive story
\* heights and positive span lengths, every value of columnShear,
\* columnMoment, girderMoment and girderShear is greater than or equal to 0
C30_ResultsNonNegative ==
    (hasCalculated /\ StructurallyValid(structureData, heap)) =>
        \A i \in Stories :
            /\ \A c \in 1..ColumnsOf(i) :
                  /\ RNonNeg(calculationResults.columnShear[i][c])
                  /\ RNonNeg(calculationResults.columnMoment[i][c])
            /\ \A s \in 1..SpansOf(i) :
                  /\ RNonNeg(calculationResults.girderMoment[i][s])
                  /\ RNonNeg(calculationResults.girderShear[i][s])

\* A calculated frame of three stories that narrows and widens again, so that
\* the sweep subtracts at joints the story above does not reach
C30_Witness ==
    /\ hasCalculated
    /\ StructurallyValid(structureData, heap)
    /\ structureData.numStories = 3
    /\ structureData.spansPerStory = <<3, 1, 2>>
    /\ calculationResults.girderMoment[3][2] # calculationResults.girderMoment[3][1]

-----------------------------------------------------------------------------
(* Properties of the rounding provider *)

\* The recurrence of src/unnamed/part_001 carried through on unrounded values
ExactColumnMoment ==
    Pushed([i \in Stories |-> storyColumnMoment(structureData, i)], structureData.numStories)

RECURSIVE ExactGirderMoment(_, _)
ExactGirderMoment(i, spans) ==
    IF spans = 0 THEN <<>>
    ELSE LET pushed == ExactGirderMoment(i, spans - 1)
             total == totalColumnMoment(ExactColumnMoment, i, spans)
         IN  Append(pushed, IF spans = 1 THEN total ELSE RAbs(RSub(total, pushed[spans - 1])))

\* C11: no value is rounded before a later step reads it: the column moments
\* summed at a joint and the girder moments subtracted in the sweep and used
\* for the girder shear are the unrounded ones, so every cell of the result
\* is the rounding of the value the unrounded recurrence gives
C11_NoRoundingBeforeUse ==
    hasCalculated =>
        \A i \in Stories :
            LET exact == ExactGirderMoment(i, SpansOf(i))
            IN  \A s \in 1..SpansOf(i) :
                    /\ locals.joint[i][s] = totalColumnMoment(ExactColumnMoment, i, s)
                    /\ calculationResults.girderMoment[i][s] = roundToTwoDecimal(exact[s])
                    /\ calculationResults.girderShear[i][s] =
                           roundToTwoDecimal(RDiv(RMul(R(2), exact[s]), LengthOf(i, s)))

\* Two structures are equal, field by field and row by row
SameStructure(a, b, h) ==
    /\ a.numStories = b.numStories
    /\ a.storyHeights = b.storyHeights
    /\ a.structureType = b.structureType
    /\ a.spansPerStory = b.spansPerStory
    /\ a.lateralLoads = b.lateralLoads
    /\ Len(a.spanMeasurements) = Len(b.spanMeasurements)
    /\ \A i \in 1..Len(a.spanMeasurements) :
          h[a.spanMeasurements[i]] = h[b.spanMeasurements[i]]

C20_LimitsEnforced ==
    [][/\ \A n \in StoryInputs :
             (n > 4 /\ handleNumberOfStoriesChange(n)) =>
                 (toast' = "error" /\ formData' = formData /\ heap' = heap)
       /\ \A i \in 1..MaxStories : \A v \in SpanInputs :
             (v > 5 /\ handleSpansPerStoryChange(i, v)) =>
                 (toast' = "error" /\ formData' = formData /\ heap' = heap)
       /\ (formData' # NULL) =>
             /\ formData'.numStories <= 4
             /\ \A i \in 1..Len(formData'.spansPerStory) : formData'.spansPerStory[i] <= 5
       /\ (lastOp' = "timerCallback") =>
             /\ Head(pending).numStories <= 4
             /\ \A i \in 1..Len(Head(pending).spansPerStory) :
                   Head(pending).spansPerStory[i] <= 5]_vars

\* The first thing done in the form was a story-count change that was refused
C20_Witness ==
    /\ ops = 1
    /\ lastOp = "handleNumberOfStoriesChange"
    /\ toast = "error"
    /\ formData.numStories = DefaultStories

\* C21: after any sequence of form operations storyHeights, spansPerStory,
\* lateralLoads and spanMeasurements each have length numStories, and
\* spanMeasurements[i] has length spansPerStory[i] for every story i
C21_FormArraysAligned ==
    (formData # NULL) =>
        /\ Len(formData.storyHeights) = formData.numStories
        /\ Len(formData.spansPerStory) = formData.numStories
        /\ Len(formData.lateralLoads) = formData.numStories
        /\ Len(formData.spanMeasurements) = formData.numStories
        /\ \A i \in 1..formData.numStories :
              Len(heap[formData.spanMeasurements[i]]) = formData.spansPerStory[i]

\* A span measurement has been edited in a form whose stories no longer
\* have the same number of spans
C21_Witness ==
    /\ formData # NULL
    /\ lastOp = "handleSpanMeasurementChange"
    /\ \E i, j \in 1..formData.numStories :
          formData.spansPerStory[i] # formData.spansPerStory[j]

C24_ResultsViewOnlyAfterCalculation ==
    (route = "/visualization") =>
        LET page == Visualization(hasCalculated, structureData, calculationResults)
        IN  /\ (page # "No Calculations Yet") =>
                  /\ hasCalculated
                  /\ structureData # NULL
                  /\ calculationResults # NULL
            /\ (locals = NULL) => page = "No Calculations Yet"

\* The user opened /visualization while the first calculation was still
\* waiting for its timer
C24_Witness ==
    /\ route = "/visualization"
    /\ pending # <<>>
    /\ locals = NULL

\* C25: every accepted submit is eventually followed, once its timer fires, by
\* exactly one calculateResults call, after which hasCalculated is true,
\* isCalculating is false and the route is /visualization; isCalculating never
\* stays true forever
C25_SubmitLeadsToCalculation ==
    /\ (pending # <<>>) ~> (/\ pending = <<>>
                            /\ lastOp = "timerCallback"
                            /\ hasCalculated
                            /\ ~isCalculating
                            /\ route = "/visualization")
    /\ isCalculating ~> ~isCalculating
    /\ [][/\ (lastOp' = "handleSubmit" /\ toast' # "error") =>
                 pending' = Append(pending, formData)
          /\ (pending' # pending /\ lastOp' # "handleSubmit") =>
                 /\ lastOp' = "timerCallback"
                 /\ pending' = Tail(pending)
                 /\ hasCalculated'
                 /\ ~isCalculating'
                 /\ route' = "/visualization"]_vars

\* The timer of a submit has fired and nothing is waiting any more
C25_Witness ==
    /\ lastOp = "timerCallback"
    /\ pending = <<>>
    /\ hasCalculated
    /\ ~isCalculating
    /\ route = "/visualization"
    /\ ops = 1

-----------------------------------------------------------------------------
(* Properties of the step-by-step solution *)

\* C19: every number of the girder-shear line is the result grid's: the left
\* moment shown is girderMoment[i][s] and the shear shown is girderShear[i][s]
\* (each written to two decimals, which is granted here), and the line adds
\* up: (left moment shown + right moment shown) / span length is the girder
\* shear shown, to the two decimals shown
C19_StepByStepShowsGridValues ==
    StepByStepShown =>
        \A i \in Stories : \A s \in 1..SpansOf(i) :
            LET line == girderShearLine(structureData, calculationResults, heap, i, s)
                sum == RDiv(RAdd(line.left, line.right), line.length)
            IN  /\ line.left = toFixed2(calculationResults.girderMoment[i][s])
                /\ line.shear = toFixed2(calculationResults.girderShear[i][s])
                /\ RGe([n |-> 1, d |-> 200], RAbs(RSub(sum, line.shear)))

====
